---- MODULE Spec2Model ----
(***************************************************************************)
(* Model of deplic (src/src/index.ts): the report generator that reads a   *)
(* manifest, reuses the blocks of the previous report that are younger     *)
(* than one week, asks the registry for the others through a queue of      *)
(* bounded concurrency and overwrites the report.                          *)
(*                                                                         *)
(* Text is modelled as a sequence of tokens.  A token is a record          *)
(* [k, v]: k is the text of the token, v an index for the tokens that      *)
(* stand for a family of texts (package names, descriptions, dates).       *)
(* Every character the parser looks at (newline, blank, "(", ":", "*",     *)
(* "/", the warning glyph) is a token of its own; the other tokens are     *)
(* chunks of text that contain none of those characters.                   *)
(***************************************************************************)
EXTENDS Integers, Sequences, FiniteSets, TLC

(***************************************************************************)
(* Bounds of the model.                                                    *)
(***************************************************************************)
TicksPerHour == 2        \* resolution of the clock below one hour
MaxRuns      == 2        \* runs of the tool that are followed
PoolExtra    == 1        \* names of the large manifest beyond the queue's concurrency
MaxLatency   == 1        \* ticks a registry request may take
Window       == 2        \* the registry answers one of the Window oldest outstanding requests

(***************************************************************************)
(* Program constants.                                                      *)
(***************************************************************************)
Concurrency == 10        \* new PQueue({ concurrency: 10 })
CacheDays   == 7         \* oneWeekAgo.setDate(oneWeekAgo.getDate() - 7)

WeekTicks == CacheDays * 24 * TicksPerHour

(***************************************************************************)
(* Tokens and strings.                                                     *)
(***************************************************************************)
T(k)    == [k |-> k, v |-> 0]
N(k, i) == [k |-> k, v |-> i]

NL    == T("\n")
SP    == T(" ")
STAR  == T("*")
COLON == T(":")
LPAR  == T("(")
RPAR  == T(")")
LBRA  == T("[")
RBRA  == T("]")
SLASH == T("/")
HASH  == T("#")
DASH  == T("-")
WARN  == T("warning-glyph")

MARKER == <<HASH, HASH, HASH, SP>>      \* "### "

Min(S) == CHOOSE i \in S : \A j \in S : i <= j

\* String.prototype.indexOf, 1-based, 0 when absent
IndexOf(s, pat) ==
  LET I == { i \in 1..(Len(s) - Len(pat) + 1) : \A j \in 1..Len(pat) : s[i + j - 1] = pat[j] }
  IN  IF I = {} THEN 0 ELSE Min(I)

Includes(s, pat) == IndexOf(s, pat) # 0

StartsWith(s, pat) == Len(s) >= Len(pat) /\ SubSeq(s, 1, Len(pat)) = pat

\* the pieces of s from position from on, P being the positions where sep occurs in s
RECURSIVE SplitFrom(_, _, _, _)
SplitFrom(s, sep, from, P) ==
  LET I == { i \in P : i >= from }
  IN  IF I = {} THEN <<SubSeq(s, from, Len(s))>>
      ELSE <<SubSeq(s, from, Min(I) - 1)>> \o SplitFrom(s, sep, Min(I) + Len(sep), P)

\* String.prototype.split with a non-empty separator
Split(s, sep) ==
  LET P == { i \in 1..(Len(s) - Len(sep) + 1) : \A j \in 1..Len(sep) : s[i + j - 1] = sep[j] }
  IN  SplitFrom(s, sep, 1, P)

IsSpace(t) == t \in {SP, NL}

RECURSIVE TrimStart(_)
TrimStart(s) == IF s # <<>> /\ IsSpace(s[1]) THEN TrimStart(Tail(s)) ELSE s

RECURSIVE TrimEnd(_)
TrimEnd(s) == IF s # <<>> /\ IsSpace(s[Len(s)]) THEN TrimEnd(SubSeq(s, 1, Len(s) - 1)) ELSE s

\* String.prototype.trim
Trim(s) == TrimEnd(TrimStart(s))

\* String.prototype.replace with a string pattern: the first occurrence only
Replace(s, pat, rep) ==
  LET i == IndexOf(s, pat)
  IN  IF i = 0 THEN s
      ELSE SubSeq(s, 1, i - 1) \o rep \o SubSeq(s, i + Len(pat), Len(s))

\* replace(/\*/g, "")
RemoveStars(s) == SelectSeq(s, LAMBDA t : t # STAR)

\* slice(0, -1); the last token of every string it is applied to is one character
SliceLast(s) == SubSeq(s, 1, Len(s) - 1)

\* Array.prototype.join
RECURSIVE Join(_, _)
Join(ss, sep) ==
  IF Len(ss) = 0 THEN <<>>
  ELSE IF Len(ss) = 1 THEN ss[1]
  ELSE ss[1] \o sep \o Join(Tail(ss), sep)

(***************************************************************************)
(* JavaScript values of the registry's answer.                             *)
(***************************************************************************)
Chars(q) == [i \in 1..Len(q) |-> T(q[i])]

Undefined  == [type |-> "undefined", s |-> <<>>]
JsString(s) == [type |-> "string", s |-> s]
JsObject   == [type |-> "object", s |-> <<>>]       \* a value that is not a string, such as {type: "MIT"}

\* ToBoolean
Truthy(x) == x.type = "object" \/ (x.type = "string" /\ x.s # <<>>)

\* an NpmPackageInfo as the code receives it: the JSON body, which may be null
EmptyInfo == [isNull |-> FALSE, license |-> Undefined, description |-> Undefined]
NullInfo  == [isNull |-> TRUE,  license |-> Undefined, description |-> Undefined]
Info(l, d) == [isNull |-> FALSE, license |-> l, description |-> d]

(***************************************************************************)
(* isPermissiveLicense                                                     *)
(***************************************************************************)
LowerCase == <<"a","b","c","d","e","f","g","h","i","j","k","l","m",
               "n","o","p","q","r","s","t","u","v","w","x","y","z">>
UpperCase == <<"A","B","C","D","E","F","G","H","I","J","K","L","M",
               "N","O","P","Q","R","S","T","U","V","W","X","Y","Z">>

ToUpperToken(t) ==
  IF \E i \in 1..Len(LowerCase) : LowerCase[i] = t.k
  THEN T(UpperCase[CHOOSE i \in 1..Len(LowerCase) : LowerCase[i] = t.k])
  ELSE t

\* String.prototype.toUpperCase
ToUpperCase(s) == [i \in 1..Len(s) |-> ToUpperToken(s[i])]

permissiveLicenses ==
  << Chars(<<"M","I","T">>),
     Chars(<<"B","S","D">>),
     Chars(<<"A","p","a","c","h","e">>),
     Chars(<<"I","S","C">>),
     Chars(<<"U","n","l","i","c","e","n","s","e">>),
     Chars(<<"C","C","0">>),
     Chars(<<"W","T","F","P","L">>),
     Chars(<<"Z","l","i","b">>) >>

\* a classifier that compares the license as it is written
isPermissiveLicense_CaseSensitive(license) ==
  \E i \in 1..Len(permissiveLicenses) : Includes(license, permissiveLicenses[i])

\* a classifier that lets the empty license through
isPermissiveLicense_EmptyPasses(license) ==
  \/ license = <<>>
  \/ \E i \in 1..Len(permissiveLicenses) :
        Includes(ToUpperCase(license), ToUpperCase(permissiveLicenses[i]))

isPermissiveLicense(license) ==
  \E i \in 1..Len(permissiveLicenses) :
     Includes(ToUpperCase(license), ToUpperCase(permissiveLicenses[i]))

(***************************************************************************)
(* encodeURIComponent.  A package name is one token N("pkg", i); it stands *)
(* for a name such as "@types/node", whose encoding differs from it.       *)
(***************************************************************************)
EncodeToken(t) ==
  CASE t.k = "pkg" -> <<N("pkg-encoded", t.v)>>
    [] t = SP      -> <<T("%"), T("2"), T("0")>>
    [] t = SLASH   -> <<T("%"), T("2"), T("F")>>
    [] t = COLON   -> <<T("%"), T("3"), T("A")>>
    [] t = LBRA    -> <<T("%"), T("5"), T("B")>>
    [] t = RBRA    -> <<T("%"), T("5"), T("D")>>
    [] t = HASH    -> <<T("%"), T("2"), T("3")>>
    [] t = NL      -> <<T("%"), T("0"), T("A")>>
    [] OTHER       -> <<t>>

RECURSIVE encodeURIComponent(_)
encodeURIComponent(s) ==
  IF s = <<>> THEN <<>> ELSE EncodeToken(Head(s)) \o encodeURIComponent(Tail(s))

PkgName(i) == <<N("pkg", i)>>

(***************************************************************************)
(* Dates.  An instant is a number of ticks since the epoch, in local       *)
(* time.  Date.prototype.toLocaleString renders it as in the report of     *)
(* the repository (src/dependencies.md:3), "20. 11. 2024 0:25:02": the     *)
(* token N("D. M. YYYY H", h) is the text of the day and the hour, the     *)
(* token N("mm", m) the text of the part of the instant below the hour.    *)
(***************************************************************************)
toLocaleString(t) ==
  <<N("D. M. YYYY H", t \div TicksPerHour), COLON, N("mm", t % TicksPerHour), COLON, T("00")>>

\* new Date(0).toISOString()
EpochISOString == <<N("YYYY-MM-DDTHH:mm:ss.sssZ", 0)>>

\* new Date(dateString): [valid, time].  The ISO text parses; the text of a day
\* followed by a bare hour, "20. 11. 2024 0", has four numbers and does not.
NewDate(s) ==
  LET u == Trim(s)
  IN  IF Len(u) = 1 /\ u[1].k = "YYYY-MM-DDTHH:mm:ss.sssZ"
      THEN [valid |-> TRUE, time |-> u[1].v]
      ELSE [valid |-> FALSE, time |-> 0]

\* dateString.match(/(\d+)\.\s*(\d+)\.\s*(\d+)\s*(\d+)/): the first day-and-hour text
SpecificFormatMatch(s) ==
  LET I == { i \in 1..Len(s) : s[i].k = "D. M. YYYY H" }
  IN  IF I = {} THEN [matched |-> FALSE, hour |-> 0]
      ELSE [matched |-> TRUE, hour |-> s[Min(I)].v]

\* a parser that takes a text it cannot read for the latest instant
parseDate_Trusting(dateString) ==
  IF NewDate(dateString).valid THEN NewDate(dateString).time
  ELSE IF SpecificFormatMatch(dateString).matched
       THEN SpecificFormatMatch(dateString).hour * TicksPerHour
  ELSE 1000000

\* parseDate: the instant, in ticks
parseDate(dateString) ==
  IF NewDate(dateString).valid THEN NewDate(dateString).time
  ELSE IF SpecificFormatMatch(dateString).matched
       THEN SpecificFormatMatch(dateString).hour * TicksPerHour
  ELSE 0

(***************************************************************************)
(* formatDependencyInfo and the frame of the report.                       *)
(***************************************************************************)
W(text) == T(text)

NoDescription == <<W("No description available.")>>
NoLicense     == <<W("No license information available")>>
WarningNote   == <<NL, NL, STAR, STAR, W("Note"), COLON, STAR, STAR, SP,
                   W("This license may not be permissive. Please review before use.")>>
CachePrefix   == <<DASH, SP, STAR, W("Cache"), COLON, STAR>>        \* "- *Cache:*"

formatDependencyInfo(dep, npmLink, licenseLink, description, isPermissive, lastUpdated) ==
  LET warningMark == IF isPermissive THEN <<>> ELSE <<WARN, SP>>
      warningNote == IF isPermissive THEN <<>> ELSE WarningNote
  IN  MARKER \o warningMark \o dep \o <<NL, NL>>
      \o (IF description # <<>> THEN description ELSE NoDescription) \o <<NL, NL>>
      \o <<DASH, SP, STAR, STAR, W("NPM"), COLON, STAR, STAR, SP, LBRA>> \o npmLink
      \o <<RBRA, LPAR>> \o npmLink \o <<RPAR, NL>>
      \o <<DASH, SP, STAR, STAR, W("License"), COLON, STAR, STAR, SP, LBRA>> \o licenseLink
      \o <<RBRA, LPAR>> \o licenseLink \o <<RPAR, NL>>
      \o CachePrefix \o <<SP>> \o lastUpdated \o warningNote
      \o <<NL, NL, DASH, DASH, DASH>>

NpmLinkPrefix     == <<W("https"), COLON, SLASH, SLASH, W("www.npmjs.com"), SLASH, W("package"), SLASH>>
LicenseLinkPrefix == <<W("https"), COLON, SLASH, SLASH, W("opensource.org"), SLASH, W("licenses"), SLASH>>

\* the header template of generateDependenciesList
Header(generatedOn, dependenciesCount, nonPermissiveCount) ==
  <<HASH, SP, W("Project Dependencies List"), NL, NL,
    W(">"), SP, W("Generated on"), COLON, SP>> \o generatedOn \o
  <<NL, NL, HASH, HASH, SP, W("Summary"), NL,
    DASH, SP, STAR, STAR, W("Total Dependencies"), COLON, STAR, STAR, SP, N("count", dependenciesCount), NL,
    DASH, SP, STAR, STAR, W("Non-Permissive Licenses"), COLON, STAR, STAR, SP, N("count", nonPermissiveCount), NL, NL,
    HASH, HASH, SP, W("Description"), NL, W("explanatory prose"), NL, NL,
    HASH, HASH, SP, W("Note"), NL,
    WARN, SP, STAR, STAR, W("Warning"), COLON, STAR, STAR, SP, W("Dependencies marked with"), SP, WARN, SP,
    W("have potentially non-permissive licenses."), NL, NL,
    DASH, DASH, DASH, NL>>

Footer == <<NL, NL, DASH, DASH, DASH, NL, NL, W("End of Dependencies List")>>

(***************************************************************************)
(* readCachedDependencies.  A file is [exists, content].  The result is    *)
(* the sequence of the records in the order of their blocks; the mapping   *)
(* cachedDeps keeps, for a name, the last of them.                         *)
(***************************************************************************)
NonEmptyLines(dep) == SelectSeq(Split(dep, <<NL>>), LAMBDA line : Trim(line) # <<>>)

\* the positional extraction of a block reads a property of undefined
BlockThrows(dep) ==
  LET lines == NonEmptyLines(dep)
  IN  \/ Len(lines) < 4
      \/ Len(Split(lines[3], <<LPAR>>)) < 2
      \/ Len(Split(lines[4], <<LPAR>>)) < 2

LastUpdatedOf(lines) ==
  LET I == { i \in 1..Len(lines) : StartsWith(lines[i], CachePrefix) }
  IN  IF I = {} THEN EpochISOString
      ELSE RemoveStars(Trim(Split(lines[Min(I)], <<COLON>>)[2]))

ParseBlock(dep) ==
  LET lines == NonEmptyLines(dep)
  IN  [ name         |-> Replace(Trim(lines[1]), <<WARN, SP>>, <<>>),
        npmLink      |-> SliceLast(Split(lines[3], <<LPAR>>)[2]),
        licenseLink  |-> SliceLast(Split(lines[4], <<LPAR>>)[2]),
        description  |-> Trim(lines[2]),
        isPermissive |-> ~Includes(lines[1], <<WARN>>),
        lastUpdated  |-> LastUpdatedOf(lines) ]

AbsentFile == [exists |-> FALSE, content |-> <<>>]
File(content) == [exists |-> TRUE, content |-> content]

\* a reader that leaves out the blocks it cannot extract and keeps the others
readCachedDependencies_Skipping(file) ==
  IF ~file.exists THEN <<>>
  ELSE LET dependencies == SelectSeq(Tail(Split(file.content, MARKER)), LAMBDA dep : ~BlockThrows(dep))
       IN  [i \in 1..Len(dependencies) |-> ParseBlock(dependencies[i])]

readCachedDependencies(file) ==
  IF ~file.exists THEN <<>>
  ELSE LET dependencies == Tail(Split(file.content, MARKER))
       IN  IF \E i \in 1..Len(dependencies) : BlockThrows(dependencies[i])
           THEN <<>>
           ELSE [i \in 1..Len(dependencies) |-> ParseBlock(dependencies[i])]

\* cachedDependencies[dep]: defined, and which record
HasCached(cached, dep) == \E i \in 1..Len(cached) : cached[i].name = dep
Cached(cached, dep) ==
  cached[CHOOSE i \in 1..Len(cached) :
           /\ cached[i].name = dep
           /\ \A j \in 1..Len(cached) : cached[j].name = dep => j <= i]

(***************************************************************************)
(* The environment: package names, manifests, the registry's answers, the  *)
(* time between two runs.                                                  *)
(***************************************************************************)
VariedNames == {1, 2}                                 \* packages for which the registry may answer anything
PoolNames   == 3..(2 + Concurrency + PoolExtra)       \* packages of the large manifest
Names       == VariedNames \cup PoolNames

Range(q) == { q[i] : i \in 1..Len(q) }

RECURSIVE Descending(_, _)
Descending(lo, hi) == IF hi < lo THEN <<>> ELSE <<hi>> \o Descending(lo, hi - 1)

Manifest(deps, dev) == [readable |-> TRUE, dependencies |-> deps, devDependencies |-> dev]
Unreadable    == [readable |-> FALSE, dependencies |-> <<>>, devDependencies |-> <<>>]
LargeManifest == Manifest(Descending(3, 2 + Concurrency + PoolExtra), <<>>)
Manifests == { Unreadable, Manifest(<<2, 1>>, <<2>>), Manifest(<<1>>, <<>>), LargeManifest }

MIT == Chars(<<"M","I","T">>)
GPL == Chars(<<"G","P","L","-","3",".","0">>)
Description(d) == <<N("description", d)>>

Response(kind, body) == [kind |-> kind, body |-> body]
FailureKinds == {"network-error", "non-2xx", "malformed-json"}
Failures == { Response(k, EmptyInfo) : k \in FailureKinds }

\* the answers the registry may give for a package: a failure of the request, or
\* the document of the package
Responses(d) ==
  CASE d = 1 -> Failures \cup { Response("ok", Info(JsString(MIT), JsString(Description(d)))) }
    [] d = 2 -> Failures \cup { Response("ok", Info(JsString(GPL), Undefined)),
                                Response("ok", NullInfo),
                                Response("ok", Info(JsObject, Undefined)) }
    [] OTHER -> { Response("ok", Info(JsString(MIT), JsString(Description(d)))) }

\* the ticks between a request and its answer; the answers for the first package are late
Latencies(d) == IF d = 1 THEN 0..MaxLatency ELSE {0}

\* the first run starts one tick after a full hour
StartClock == 2 * WeekTicks + 1
Delays     == {0, WeekTicks - 1, WeekTicks}

\* previous reports that no run of the tool wrote
Garbage == File(<<W("notes"), NL>> \o MARKER \o <<W("to do"), NL>>)
InitialFiles == {AbsentFile, Garbage}

(***************************************************************************)
(* State.                                                                  *)
(***************************************************************************)
VARIABLES
  clock,               \* the time, in ticks
  started,             \* the time at which the run started
  runs,                \* runs started so far
  pc,                  \* where generateDependenciesList is
  packageJson,         \* the manifest on disk
  outputFile,          \* the report on disk
  previousReport,      \* the report on disk when the run started
  allDependencies,     \* Object.keys(allDependencies).sort()
  cachedDependencies,  \* the result of readCachedDependencies
  oneWeekAgo,
  queue,               \* the tasks PQueue has not started, first in first out
  task,                \* the unit of work of each dependency
  processedCount,
  nonPermissiveCount,
  cachedCount,
  writes,              \* times the run wrote the report
  overtaken,           \* a request was answered before an older request of the run
  hung                 \* the packages whose request the registry never answers

vars == <<clock, started, runs, pc, packageJson, outputFile, previousReport, allDependencies,
          cachedDependencies, oneWeekAgo, queue, task, processedCount,
          nonPermissiveCount, cachedCount, writes, overtaken, hung>>

\* a unit of work: where it is, its block, and what happened to it (requests: the
\* requests it sent; response: "cached", "answered" or "failed"; stamp: the time of
\* its new Date())
NoTask == [status |-> "none", block |-> <<>>, requests |-> 0, response |-> "none", stamp |-> -1]

Init ==
  /\ clock = StartClock
  /\ started = StartClock
  /\ runs = 0
  /\ pc = "exited"
  /\ packageJson = Unreadable
  /\ outputFile \in InitialFiles
  /\ previousReport = outputFile
  /\ allDependencies = <<>>
  /\ cachedDependencies = <<>>
  /\ oneWeekAgo = 0
  /\ queue = <<>>
  /\ task = [d \in Names |-> NoTask]
  /\ processedCount = 0
  /\ nonPermissiveCount = 0
  /\ cachedCount = 0
  /\ writes = 0
  /\ overtaken = FALSE
  /\ hung = {}

\* the keys of the two mappings one after the other, a name of both kept twice
MergedKeys_Concatenated(m) == m.dependencies \o m.devDependencies

\* { ...packageJson.dependencies, ...packageJson.devDependencies }: the keys, in insertion order
MergedKeys(m) ==
  m.dependencies \o SelectSeq(m.devDependencies, LAMBDA d : d \notin Range(m.dependencies))

\* the names left in the order of the manifest
SortNames_Unsorted(q) == q

\* Array.prototype.sort on the names
RECURSIVE SortNames(_)
SortNames(q) ==
  IF q = <<>> THEN <<>>
  ELSE LET m == Min(Range(q))
           i == Min({ j \in 1..Len(q) : q[j] = m })
       IN  <<m>> \o SortNames(SubSeq(q, 1, i - 1) \o SubSeq(q, i + 1, Len(q)))

Pending  == { d \in Names : task[d].status \in {"fetching", "returned", "threw"} }
Unsettled == { d \in Names : task[d].status \in {"queued", "fetching", "returned", "threw"} }

(***************************************************************************)
(* generateDependenciesList, one action per step of the event loop.        *)
(***************************************************************************)

\* the manifest the next run finds: the large project is analysed from the first
\* run that is followed on, a small project does not become the large one
NextManifests ==
  IF pc = "exited" \/ packageJson = LargeManifest THEN Manifests ELSE Manifests \ {LargeManifest}

\* the process is started; the previous one, if any, has exited
Invoke ==
  /\ pc \in {"exited", "done", "failed"}
  /\ Unsettled = {}
  /\ runs < MaxRuns
  /\ packageJson' \in NextManifests
  /\ \E delay \in (IF runs = 0 THEN {0} ELSE Delays) : clock' = clock + delay
  /\ started' = clock'
  /\ runs' = runs + 1
  /\ pc' = "reading-manifest"
  /\ previousReport' = outputFile
  /\ allDependencies' = <<>>
  /\ cachedDependencies' = <<>>
  /\ oneWeekAgo' = 0
  /\ queue' = <<>>
  /\ task' = [d \in Names |-> NoTask]
  /\ processedCount' = 0
  /\ nonPermissiveCount' = 0
  /\ cachedCount' = 0
  /\ writes' = 0
  /\ overtaken' = FALSE
  /\ UNCHANGED <<outputFile, hung>>

\* a run that goes on with no dependencies when the manifest cannot be read
ReadManifest_Ignoring ==
  /\ pc = "reading-manifest"
  /\ pc' = "reading-cache"
  /\ UNCHANGED <<clock, started, runs, packageJson, outputFile, previousReport, allDependencies,
                 cachedDependencies, oneWeekAgo, queue, task, processedCount,
                 nonPermissiveCount, cachedCount, writes, overtaken, hung>>

\* fs.readFile and JSON.parse of the manifest; a failure is caught by the outer catch
ReadManifest ==
  /\ pc = "reading-manifest"
  /\ pc' = IF packageJson.readable THEN "reading-cache" ELSE "failed"
  /\ UNCHANGED <<clock, started, runs, packageJson, outputFile, previousReport, allDependencies,
                 cachedDependencies, oneWeekAgo, queue, task, processedCount,
                 nonPermissiveCount, cachedCount, writes, overtaken, hung>>

\* readCachedDependencies, the counters, oneWeekAgo and the queue.add of every dependency
LoadCache ==
  /\ pc = "reading-cache"
  /\ cachedDependencies' = readCachedDependencies(outputFile)
  /\ allDependencies' = SortNames(MergedKeys(packageJson))
  /\ processedCount' = 0
  /\ nonPermissiveCount' = 0
  /\ cachedCount' = 0
  /\ oneWeekAgo' = clock - WeekTicks
  /\ queue' = allDependencies'
  /\ task' = [d \in Names |->
                IF d \in Range(allDependencies') THEN [NoTask EXCEPT !.status = "queued"] ELSE NoTask]
  /\ pc' = "pipeline"
  /\ UNCHANGED <<clock, started, runs, packageJson, outputFile, previousReport, writes, overtaken, hung>>

\* a record exactly one week old still counts as valid
isCacheValid_AtLeast(cached, dep, weekAgo) ==
  /\ HasCached(cached, dep)
  /\ parseDate(Cached(cached, dep).lastUpdated) >= weekAgo

isCacheValid(cached, dep, weekAgo) ==
  /\ HasCached(cached, dep)
  /\ parseDate(Cached(cached, dep).lastUpdated) > weekAgo

\* a reuse that stamps the block with the time of the run
CachedResult_Refreshed(cachedInfo, dep) ==
  [ threw        |-> FALSE,
    isPermissive |-> cachedInfo.isPermissive,
    block        |-> formatDependencyInfo(dep, cachedInfo.npmLink, cachedInfo.licenseLink,
                                          cachedInfo.description, cachedInfo.isPermissive,
                                          toLocaleString(clock)) ]

\* the branch of the unit of work that reuses the cached record
CachedResult(cachedInfo, dep) ==
  [ threw        |-> FALSE,
    isPermissive |-> cachedInfo.isPermissive,
    block        |-> formatDependencyInfo(dep, cachedInfo.npmLink, cachedInfo.licenseLink,
                                          cachedInfo.description, cachedInfo.isPermissive,
                                          cachedInfo.lastUpdated) ]

\* fetchPackageInfo: what the unit of work receives for an answer of the registry
fetchPackageInfo(response) ==
  IF response.kind = "ok" THEN response.body ELSE EmptyInfo

\* whether fetchPackageInfo caught a failure of the request
Outcome(response) == IF response.kind = "ok" THEN "answered" ELSE "failed"

\* the branch of the unit of work that follows the answer of the registry, at time now
FetchedResult(packageInfo, dep, now) ==
  IF packageInfo.isNull \/ packageInfo.license.type = "object"
  THEN [threw |-> TRUE, isPermissive |-> FALSE, block |-> <<>>]
  ELSE LET license     == IF Truthy(packageInfo.license) THEN packageInfo.license.s ELSE <<>>
           npmLink     == NpmLinkPrefix \o encodeURIComponent(dep)
           licenseLink == IF Truthy(packageInfo.license)
                          THEN LicenseLinkPrefix \o encodeURIComponent(packageInfo.license.s)
                          ELSE NoLicense
           description == IF Truthy(packageInfo.description) THEN packageInfo.description.s ELSE <<>>
       IN  [ threw        |-> FALSE,
             isPermissive |-> isPermissiveLicense(license),
             block        |-> formatDependencyInfo(dep, npmLink, licenseLink, description,
                                                   isPermissiveLicense(license), toLocaleString(now)) ]

\* a queue that starts a task only when no other is pending
CanStart_OneAtATime == queue # <<>> /\ Pending = {}

\* a queue that starts every task at once
CanStart_Unbounded == queue # <<>>

\* PQueue starts a task while fewer than Concurrency are pending
CanStart == queue # <<>> /\ Cardinality(Pending) < Concurrency

\* a unit of work that leaves nonPermissiveCount alone
Count_Forgetful(result) ==
  /\ nonPermissiveCount' = nonPermissiveCount
  /\ processedCount' = processedCount + 1

\* Math.round((current / total) * 100); 0 / 0 is NaN
Percentage(current, total) ==
  IF total = 0 THEN [nan |-> TRUE, n |-> 0]
  ELSE [nan |-> FALSE, n |-> (200 * current + total) \div (2 * total)]

\* "=".repeat(count) with count = n / 2: a RangeError when the count, truncated, is negative
RepeatThrows(halves) == halves <= -2

\* updateProgress: whether the call throws; String.prototype.repeat takes NaN for 0
updateProgress(current, total) ==
  LET percentage == Percentage(current, total)
  IN  [ throws |-> /\ ~percentage.nan
                   /\ (RepeatThrows(percentage.n) \/ RepeatThrows(100 - percentage.n)) ]

\* a progress counter that is advanced twice for a unit
Count_Twice(result) ==
  /\ nonPermissiveCount' = IF result.isPermissive THEN nonPermissiveCount ELSE nonPermissiveCount + 1
  /\ processedCount' = processedCount + 2

\* the counters a unit of work updates when it returns
Count(result) ==
  /\ nonPermissiveCount' = IF result.isPermissive THEN nonPermissiveCount ELSE nonPermissiveCount + 1
  /\ processedCount' = processedCount + 1

\* a unit of work that sends its request a second time
Requesting_Twice(t) == [t EXCEPT !.status = "fetching", !.requests = @ + 2]

\* await fetchPackageInfo(dep): the unit of work sends one request and waits for the answer
Requesting(t) == [t EXCEPT !.status = "fetching", !.requests = @ + 1]

\* PQueue starts the next task: the unit of work runs up to its first await
StartTask ==
  /\ pc \in {"pipeline", "failed"}
  /\ CanStart
  /\ LET d == Head(queue)
     IN  /\ queue' = Tail(queue)
         /\ IF isCacheValid(cachedDependencies, PkgName(d), oneWeekAgo)
            THEN LET result == CachedResult(Cached(cachedDependencies, PkgName(d)), PkgName(d))
                 IN  /\ cachedCount' = cachedCount + 1
                     /\ Count(result)
                     /\ task' = [task EXCEPT ![d] = [@ EXCEPT !.status = "returned",
                                                              !.response = "cached",
                                                              !.block = result.block]]
            ELSE /\ task' = [task EXCEPT ![d] = Requesting(@)]
                 /\ UNCHANGED <<cachedCount, nonPermissiveCount, processedCount>>
  /\ UNCHANGED <<clock, started, runs, pc, packageJson, outputFile, previousReport, allDependencies,
                 cachedDependencies, oneWeekAgo, writes, overtaken, hung>>

\* the units of work whose body has ended and whose promise is not settled yet
Returned == { d \in Names : task[d].status \in {"returned", "threw"} }

\* the promise of a unit of work that returned or threw is settled and its slot is freed;
\* the bodies end in the order of the names, and their promises are settled in that order
Settle ==
  /\ Returned # {}
  /\ LET d == Min(Returned)
     IN  task' = [task EXCEPT ![d].status = IF task[d].status = "returned" THEN "fulfilled" ELSE "rejected"]
  /\ UNCHANGED <<clock, started, runs, pc, packageJson, outputFile, previousReport, allDependencies,
                 cachedDependencies, oneWeekAgo, queue, processedCount, nonPermissiveCount,
                 cachedCount, writes, overtaken, hung>>

Rejected == { d \in Names : task[d].status = "rejected" }

\* Promise.all rejects with the first rejection; the outer catch logs it
CatchError ==
  /\ pc = "pipeline"
  /\ Rejected # {}
  /\ pc' = "failed"
  /\ UNCHANGED <<clock, started, runs, packageJson, outputFile, previousReport, allDependencies,
                 cachedDependencies, oneWeekAgo, queue, task, processedCount,
                 nonPermissiveCount, cachedCount, writes, overtaken, hung>>

\* a step that runs before the event loop takes the next answer of the registry
MicrotaskPending ==
  \/ pc \in {"pipeline", "failed"} /\ CanStart
  \/ Returned # {}
  \/ pc = "pipeline" /\ Rejected # {}

\* the outstanding requests; the requests are issued in the order of the names, and
\* the registry answers one of the Window oldest of those it answers at all
Fetching == { d \in Names : task[d].status = "fetching" }

\* the unit of work of d receives the answer, latency ticks from now, and runs to its end
Answer(d, response, latency) ==
  LET result == FetchedResult(fetchPackageInfo(response), PkgName(d), clock + latency)
  IN  /\ clock' = clock + latency
      /\ overtaken' = (overtaken \/ \E e \in Fetching : e < d)
      /\ IF result.threw
         THEN /\ task' = [task EXCEPT ![d] = [@ EXCEPT !.status = "threw",
                                                       !.response = Outcome(response)]]
              /\ UNCHANGED <<nonPermissiveCount, processedCount>>
         ELSE /\ task' = [task EXCEPT ![d] = [@ EXCEPT !.status = "returned",
                                                       !.response = Outcome(response),
                                                       !.block = result.block,
                                                       !.stamp = clock + latency]]
              /\ Count(result)
      /\ UNCHANGED <<started, runs, pc, packageJson, outputFile, previousReport, allDependencies,
                     cachedDependencies, oneWeekAgo, queue, cachedCount, writes, hung>>

\* the registry answers the request for d: fetchPackageInfo returns and the unit of work goes on
FetchResponse ==
  /\ ~MicrotaskPending
  /\ \E d \in Fetching \ hung :
       /\ Cardinality({ e \in Fetching \ hung : e < d }) < Window
       /\ \E response \in Responses(d), latency \in Latencies(d) : Answer(d, response, latency)

\* await Promise.all(dependenciesPromises): the values in the order of the promises
PromiseAll(deps, tasks) == [i \in 1..Len(deps) |-> tasks[deps[i]].block]

FullContent(now, deps, tasks, nonPermissive) ==
  Header(toLocaleString(now), Len(deps), nonPermissive)
  \o Join(PromiseAll(deps, tasks), <<NL, NL>>) \o Footer

\* a wait that ends with the first fulfilled promise
AllFulfilled_First ==
  allDependencies = <<>> \/ \E d \in Range(allDependencies) : task[d].status = "fulfilled"

\* await Promise.all(dependenciesPromises) goes on when every promise is fulfilled
AllFulfilled == \A d \in Range(allDependencies) : task[d].status = "fulfilled"

\* every promise is fulfilled: the report is assembled and written
WriteReport ==
  /\ pc = "pipeline"
  /\ AllFulfilled
  /\ outputFile' = File(FullContent(clock, allDependencies, task, nonPermissiveCount))
  /\ writes' = writes + 1
  /\ pc' = "done"
  /\ UNCHANGED <<clock, started, runs, packageJson, previousReport, allDependencies,
                 cachedDependencies, oneWeekAgo, queue, task, processedCount,
                 nonPermissiveCount, cachedCount, overtaken, hung>>

Next ==
  \/ Invoke
  \/ ReadManifest
  \/ LoadCache
  \/ StartTask
  \/ Settle
  \/ CatchError
  \/ FetchResponse
  \/ WriteReport

Spec == Init /\ [][Next]_vars

(***************************************************************************)
(* The tool started in a directory that already has a report: one that an  *)
(* earlier run of the tool wrote, and that report after an edit by hand.   *)
(***************************************************************************)
\* the earlier run answered on the full hour before the first run
FoundTime == StartClock - 1

\* the block the earlier run wrote for a package with the license MIT
FoundBlock1(lastUpdated) ==
  formatDependencyInfo(PkgName(1), NpmLinkPrefix \o encodeURIComponent(PkgName(1)),
                       LicenseLinkPrefix \o encodeURIComponent(MIT), Description(1),
                       isPermissiveLicense(MIT), lastUpdated)

\* the block the earlier run wrote for a package with the license GPL-3.0 and no description
FoundBlock2 ==
  formatDependencyInfo(PkgName(2), NpmLinkPrefix \o encodeURIComponent(PkgName(2)),
                       LicenseLinkPrefix \o encodeURIComponent(GPL), <<>>,
                       isPermissiveLicense(GPL), toLocaleString(FoundTime))

FoundReport(block1, block2) ==
  File(Header(toLocaleString(FoundTime), Cardinality({1, 2}), Cardinality({2}))
       \o Join(<<block1, block2>>, <<NL, NL>>) \o Footer)

\* the report as the earlier run wrote it
ToolReport == FoundReport(FoundBlock1(toLocaleString(FoundTime)), FoundBlock2)

\* the report after the cache line of the first block was overwritten by hand
EditedStamp == FoundReport(FoundBlock1(<<W("yesterday")>>), FoundBlock2)

\* the report after the opening parentheses of the second block were deleted by hand
BrokenBlock ==
  FoundReport(FoundBlock1(toLocaleString(FoundTime)), SelectSeq(FoundBlock2, LAMBDA t : t # LPAR))

FoundFiles == {ToolReport, EditedStamp, BrokenBlock}

FoundInit ==
  /\ clock = StartClock
  /\ started = StartClock
  /\ runs = 0
  /\ pc = "exited"
  /\ packageJson = Unreadable
  /\ outputFile \in FoundFiles
  /\ previousReport = outputFile
  /\ allDependencies = <<>>
  /\ cachedDependencies = <<>>
  /\ oneWeekAgo = 0
  /\ queue = <<>>
  /\ task = [d \in Names |-> NoTask]
  /\ processedCount = 0
  /\ nonPermissiveCount = 0
  /\ cachedCount = 0
  /\ writes = 0
  /\ overtaken = FALSE
  /\ hung = {}

FoundSpec == FoundInit /\ [][Next]_vars

(***************************************************************************)
(* Requests that hang.  node-fetch has no timeout: a request the registry  *)
(* never answers keeps its unit of work, and its slot of the queue, for    *)
(* ever.  Once the units of work are queued, the event loop runs every     *)
(* callback that is ready, and every request that is answered at all is    *)
(* answered at some time; nothing makes the user start the tool again.     *)
(***************************************************************************)
\* one package; one package less than the queue has slots; as many as it has slots
HungSets == { {1}, 3..(1 + Concurrency), 3..(2 + Concurrency) }

\* one run is followed; it finds a report with a record to reuse and one to request again
HangInit ==
  /\ clock = StartClock
  /\ started = StartClock
  /\ runs = MaxRuns - 1
  /\ pc = "exited"
  /\ packageJson = Unreadable
  /\ outputFile = EditedStamp
  /\ previousReport = outputFile
  /\ allDependencies = <<>>
  /\ cachedDependencies = <<>>
  /\ oneWeekAgo = 0
  /\ queue = <<>>
  /\ task = [d \in Names |-> NoTask]
  /\ processedCount = 0
  /\ nonPermissiveCount = 0
  /\ cachedCount = 0
  /\ writes = 0
  /\ overtaken = FALSE
  /\ hung \in HungSets

HangSpec ==
  /\ HangInit
  /\ [][Next]_vars
  /\ WF_vars(StartTask)
  /\ WF_vars(Settle)
  /\ WF_vars(CatchError)
  /\ WF_vars(FetchResponse)
  /\ WF_vars(WriteReport)

(***************************************************************************)
(* A survey of license strings: the unit of work of one dependency waits   *)
(* for the registry, which answers with a document whose license is any    *)
(* string of the survey.                                                   *)
(***************************************************************************)
ToLowerToken(t) ==
  IF \E i \in 1..Len(UpperCase) : UpperCase[i] = t.k
  THEN T(LowerCase[CHOOSE i \in 1..Len(UpperCase) : UpperCase[i] = t.k])
  ELSE t

ToLowerCase(s) == [i \in 1..Len(s) |-> ToLowerToken(s[i])]

\* the license names of the allow-list and texts that fall short of one by a letter
LicenseWords ==
  Range(permissiveLicenses)
  \cup { SubSeq(permissiveLicenses[i], 1, Len(permissiveLicenses[i]) - 1) : i \in 1..Len(permissiveLicenses) }
  \cup { <<>>, GPL, Chars(<<"M","-","I","T">>), Chars(<<"T","I","M">>) }

\* what stands before and after the word in a license string
LicensePrefixes == { <<>>, Chars(<<"(","G","P","L","-","2",".","0"," ","O","R"," ">>) }
LicenseSuffixes == { <<>>, Chars(<<"-","2",".","0",")">>) }

SurveyLicenses ==
  { pre \o word \o suf :
      pre \in LicensePrefixes, suf \in LicenseSuffixes,
      word \in LicenseWords \cup { ToUpperCase(w) : w \in LicenseWords }
                            \cup { ToLowerCase(w) : w \in LicenseWords } }

SurveyInit ==
  /\ clock = StartClock
  /\ started = StartClock
  /\ runs = MaxRuns
  /\ pc = "pipeline"
  /\ packageJson = Manifest(<<1>>, <<>>)
  /\ outputFile = AbsentFile
  /\ previousReport = AbsentFile
  /\ allDependencies = <<1>>
  /\ cachedDependencies = <<>>
  /\ oneWeekAgo = StartClock - WeekTicks
  /\ queue = <<>>
  /\ task = [d \in Names |-> IF d = 1 THEN Requesting(NoTask) ELSE NoTask]
  /\ processedCount = 0
  /\ nonPermissiveCount = 0
  /\ cachedCount = 0
  /\ writes = 0
  /\ overtaken = FALSE
  /\ hung = {}

\* the registry answers with a document whose license is a string of the survey
SurveyAnswer ==
  /\ ~MicrotaskPending
  /\ \E d \in Fetching, license \in SurveyLicenses :
       Answer(d, Response("ok", Info(JsString(license), Undefined)), 0)

SurveyNext ==
  \/ SurveyAnswer
  \/ Settle
  \/ WriteReport

SurveySpec == SurveyInit /\ [][SurveyNext]_vars

(***************************************************************************)
(* Reading a report as a reader of the file does, for the properties.      *)
(***************************************************************************)
\* the blocks of a report: what follows each "### ", up to the "---" that closes the block
BlocksOf(file) ==
  LET pieces == Tail(Split(file.content, MARKER))
  IN  [i \in 1..Len(pieces) |->
         SubSeq(pieces[i], 1, IndexOf(pieces[i], <<NL, NL, DASH, DASH, DASH>>) - 1)]

TitleOf(block) == Split(block, <<NL>>)[1]
HasGlyph(block) == StartsWith(TitleOf(block), <<WARN, SP>>)
NameOf(block) ==
  IF HasGlyph(block) THEN SubSeq(TitleOf(block), 3, Len(TitleOf(block))) ELSE TitleOf(block)

\* the names of the blocks of a report, in the order of the blocks
ReportNames(file) ==
  LET blocks == BlocksOf(file)
  IN  [i \in 1..Len(blocks) |-> NameOf(blocks[i])]

HasBlock(file, d) ==
  /\ file.exists
  /\ LET blocks == BlocksOf(file)
     IN  \E i \in 1..Len(blocks) : NameOf(blocks[i]) = PkgName(d)
BlockOf(file, d) ==
  LET blocks == BlocksOf(file)
  IN  blocks[CHOOSE i \in 1..Len(blocks) : NameOf(blocks[i]) = PkgName(d)]

\* the names the manifest declares
Declared(m) == Range(m.dependencies) \cup Range(m.devDependencies)

\* the run has written its report
Written == pc = "done"

(***************************************************************************)
(* C1: when the run has written the report, the report has exactly one     *)
(* block for each name the manifest declares in dependencies or in         *)
(* devDependencies, and no block for any other name, cached or not.        *)
(***************************************************************************)
C1_OneBlockPerDeclaredName ==
  Written =>
    LET names == ReportNames(outputFile)
    IN  /\ Range(names) = { PkgName(d) : d \in Declared(packageJson) }
        /\ Len(names) = Cardinality(Declared(packageJson))

\* a written report for a manifest that declares a name twice, after a report
\* that has a block for a name the manifest does not declare
C1_Witness ==
  /\ Written
  /\ Range(packageJson.dependencies) \cap Range(packageJson.devDependencies) # {}
  /\ \E d \in Names \ Declared(packageJson) : HasCached(cachedDependencies, PkgName(d))

(***************************************************************************)
(* C2: when the run has written the report, its blocks are in ascending    *)
(* order of the names, whatever the order in which the units of work       *)
(* completed.                                                              *)
(***************************************************************************)
C2_BlocksSortedByName ==
  Written =>
    LET names == ReportNames(outputFile)
    IN  /\ \A i \in 1..Len(names) : Len(names[i]) = 1
        /\ \A i, j \in 1..Len(names) : i < j => names[i][1].v < names[j][1].v

\* a written report of a run in which a request was answered before an older one
C2_Witness == Written /\ overtaken /\ Len(allDependencies) > 1

(***************************************************************************)
(* C3: at most Concurrency units of work are started and not completed,    *)
(* and so at most Concurrency requests are outstanding.                    *)
(***************************************************************************)
C3_AtMostTenInFlight ==
  /\ Cardinality(Pending) <= Concurrency
  /\ Cardinality(Fetching) <= Concurrency

\* the limit holds a task back: ten requests are outstanding and a task waits
C3_Witness == Cardinality(Fetching) = Concurrency /\ queue # <<>>

\* the lines of a block that are not blank
LinesOf(block) == SelectSeq(Split(block, <<NL>>), LAMBDA line : Trim(line) # <<>>)

\* the text a block shows after "- *Cache:* ", and the instant that text denotes:
\* the day and the hour, and the minutes where the text has them
StampTextOf(block) ==
  LET text == <<NL>> \o block
      i    == IndexOf(text, <<NL>> \o CachePrefix)
      rest == SubSeq(text, i + Len(CachePrefix) + 2, Len(text))
      j    == IndexOf(rest, <<NL>>)
  IN  IF j = 0 THEN rest ELSE SubSeq(rest, 1, j - 1)

InstantOf(text) ==
  LET hours   == SelectSeq(text, LAMBDA t : t.k = "D. M. YYYY H")
      minutes == SelectSeq(text, LAMBDA t : t.k = "mm")
  IN  hours[1].v * TicksPerHour + (IF minutes = <<>> THEN 0 ELSE minutes[1].v)

\* the run has read the manifest and the previous report and has queued its units of work
InPipeline == pc \in {"pipeline", "done", "failed"} /\ packageJson.readable

(***************************************************************************)
(* C4: a dependency whose block in the previous report shows a cache       *)
(* timestamp less than seven days before the run is not requested from     *)
(* the registry.                                                           *)
(***************************************************************************)
C4_Claim ==
  \A d \in Range(allDependencies) :
     ( /\ InPipeline
       /\ HasBlock(previousReport, d)
       /\ started - InstantOf(StampTextOf(BlockOf(previousReport, d))) < WeekTicks )
     => task[d].requests = 0

(***************************************************************************)
(* C5: the block written for a dependency served from the cache is the     *)
(* block the previous report has for it.                                   *)
(***************************************************************************)
C5_Claim ==
  \A d \in Range(allDependencies) :
     (Written /\ task[d].response = "cached")
     => BlockOf(outputFile, d) = BlockOf(previousReport, d)

(***************************************************************************)
(* C6: a unit of work reuses the cached record exactly when the record     *)
(* exists and its parsed lastUpdated is strictly after the start of the    *)
(* run minus seven days; a record that is seven days old or older is       *)
(* requested once, and the block of the answer shows the time of the       *)
(* answer.                                                                 *)
(***************************************************************************)
C6_ReusedIffYoungerThanAWeek ==
  \A d \in Range(allDependencies) :
     (InPipeline /\ task[d].status # "queued") =>
       LET has    == HasCached(cachedDependencies, PkgName(d))
           parsed == parseDate(Cached(cachedDependencies, PkgName(d)).lastUpdated)
       IN  /\ (task[d].response = "cached") <=> (has /\ parsed > started - WeekTicks)
           /\ (has /\ parsed <= started - WeekTicks) =>
                /\ task[d].requests = 1
                /\ task[d].status \in {"returned", "fulfilled"} =>
                     /\ started <= task[d].stamp /\ task[d].stamp <= clock
                     /\ StampTextOf(SubSeq(task[d].block, Len(MARKER) + 1, Len(task[d].block)))
                          = toLocaleString(task[d].stamp)

\* the lines of a block but the one of the cache timestamp
WithoutStamp(block) == SelectSeq(LinesOf(block), LAMBDA line : ~StartsWith(line, CachePrefix))

\* a record exactly seven days old is fetched again, the registry answers what it
\* answered before, after the run started, and the report is written
C6_Witness ==
  /\ Written
  /\ \E d \in Range(allDependencies) :
       /\ HasCached(cachedDependencies, PkgName(d))
       /\ parseDate(Cached(cachedDependencies, PkgName(d)).lastUpdated) = started - WeekTicks
       /\ task[d].response = "answered"
       /\ task[d].stamp > started
       /\ WithoutStamp(BlockOf(outputFile, d)) = WithoutStamp(BlockOf(previousReport, d))

(***************************************************************************)
(* C7: in the report a run writes, the block of a dependency whose request *)
(* failed has the placeholder description, "No license information         *)
(* available" as its license link, the warning glyph and the review note,  *)
(* and the summary counts it among the non-permissive licenses.            *)
(***************************************************************************)
\* the numbers of the summary: <<Total Dependencies, Non-Permissive Licenses>>
SummaryOf(file) ==
  LET counts == SelectSeq(Split(file.content, MARKER)[1], LAMBDA t : t.k = "count")
  IN  <<counts[1].v, counts[2].v>>

C7_FailedRequestStillReported ==
  \A d \in Range(allDependencies) :
     (Written /\ task[d].response = "failed") =>
       /\ HasBlock(outputFile, d)
       /\ LET block == BlockOf(outputFile, d)
              lines == LinesOf(block)
          IN  /\ HasGlyph(block)
              /\ lines[2] = NoDescription
              /\ lines[4] = <<DASH, SP, STAR, STAR, W("License"), COLON, STAR, STAR, SP, LBRA>>
                            \o NoLicense \o <<RBRA, LPAR>> \o NoLicense \o <<RPAR>>
              /\ Includes(block, WarningNote)
       /\ LET blocks == BlocksOf(outputFile)
          IN  SummaryOf(outputFile)[2] = Cardinality({ i \in 1..Len(blocks) : HasGlyph(blocks[i]) })

\* a written report of a run in which a request failed
C7_Witness == Written /\ \E d \in Range(allDependencies) : task[d].response = "failed"

(***************************************************************************)
(* C8: no answer of the registry for one dependency sends the run to its   *)
(* error path: a run whose manifest was read writes its report.            *)
(***************************************************************************)
C8_Claim == pc = "failed" => ~packageJson.readable

(***************************************************************************)
(* C9: a run whose manifest cannot be read ends in the error path; it      *)
(* sends no request, writes nothing and leaves the previous report as it   *)
(* was.                                                                    *)
(***************************************************************************)
C9_UnreadableManifestChangesNothing ==
  (pc # "exited" /\ ~packageJson.readable) =>
    /\ pc \in {"reading-manifest", "failed"}
    /\ \A d \in Names : task[d].requests = 0 /\ task[d].status = "none"
    /\ writes = 0
    /\ outputFile = previousReport

\* the error path of a run that found a previous report and no readable manifest
C9_Witness == pc = "failed" /\ ~packageJson.readable /\ HasBlock(outputFile, 1)

(***************************************************************************)
(* C10: a run that finds no previous report, or one that cannot be parsed, *)
(* has an empty cache mapping, requests every dependency exactly once and  *)
(* writes a report with a block for every dependency.                      *)
(***************************************************************************)
C10_Claim ==
  ( /\ InPipeline
    /\ pc \in {"done", "failed"}
    /\ Unsettled = {}
    /\ previousReport \in {AbsentFile, Garbage} )
  => /\ cachedDependencies = <<>>
     /\ \A d \in Range(allDependencies) : task[d].requests = 1
     /\ Written
     /\ \A d \in Range(allDependencies) : HasBlock(outputFile, d)

(***************************************************************************)
(* C11: reading a written report back gives, for the record of every       *)
(* block, the name, the NPM link, the license link, the description and    *)
(* the flag that were written, and a timestamp that parses to the instant  *)
(* that was written: for a reused record the instant of the record, for a  *)
(* new record the time of the answer.                                      *)
(***************************************************************************)
C11_Claim ==
  Written =>
    LET reread == readCachedDependencies(outputFile)
    IN  \A d \in Range(allDependencies) :
          /\ HasCached(reread, PkgName(d))
          /\ LET record == Cached(reread, PkgName(d))
                 old    == Cached(cachedDependencies, PkgName(d))
             IN  /\ record.name = PkgName(d)
                 /\ record.isPermissive = ~HasGlyph(BlockOf(outputFile, d))
                 /\ task[d].response = "cached" =>
                      /\ record.npmLink = old.npmLink
                      /\ record.licenseLink = old.licenseLink
                      /\ record.description = old.description
                      /\ record.isPermissive = old.isPermissive
                      /\ parseDate(record.lastUpdated) = parseDate(old.lastUpdated)
                 /\ task[d].response \in {"answered", "failed"} =>
                      /\ record.npmLink = NpmLinkPrefix \o encodeURIComponent(PkgName(d))
                      /\ parseDate(record.lastUpdated) = task[d].stamp

(***************************************************************************)
(* C12: isPermissiveLicense is true exactly when the license contains,     *)
(* whatever the case of its letters, one of MIT, BSD, Apache, ISC,         *)
(* Unlicense, CC0, WTFPL, Zlib; the empty string and every string with     *)
(* none of them is non-permissive.  Read off the unit of work: its block   *)
(* has no warning glyph, and is not counted, exactly in that case.         *)
(***************************************************************************)
AllowedWords ==
  { Chars(<<"m","i","t">>), Chars(<<"b","s","d">>), Chars(<<"a","p","a","c","h","e">>),
    Chars(<<"i","s","c">>), Chars(<<"u","n","l","i","c","e","n","s","e">>),
    Chars(<<"c","c","0">>), Chars(<<"w","t","f","p","l">>), Chars(<<"z","l","i","b">>) }

\* the two characters are the same letter, or the same character
SameLetter(a, b) == ToLowerToken(a) = ToLowerToken(b)

ContainsIgnoringCase(s, word) ==
  \E i \in 1..(Len(s) - Len(word) + 1) : \A j \in 1..Len(word) : SameLetter(s[i + j - 1], word[j])

NamesAllowedWord(license) == \E word \in AllowedWords : ContainsIgnoringCase(license, word)

\* the license link the unit of work writes for a license
LinkFor(license) ==
  IF license = <<>> THEN NoLicense ELSE LicenseLinkPrefix \o encodeURIComponent(license)

\* the block of the unit was written for this license
BlockIsFor(block, license) == Includes(block, <<LBRA>> \o LinkFor(license) \o <<RBRA>>)

C12_PermissiveIffAllowedWord ==
  \A d \in Range(allDependencies), license \in SurveyLicenses :
     (task[d].status \in {"returned", "fulfilled"} /\ BlockIsFor(task[d].block, license))
     => /\ ~Includes(task[d].block, <<WARN>>) <=> NamesAllowedWord(license)
        /\ nonPermissiveCount = IF NamesAllowedWord(license) THEN 0 ELSE 1
        /\ license = <<>> => Includes(task[d].block, <<WARN>>)

\* the survey reached a license that names an allowed word in lower case inside a
\* longer string, and the unit classified it as permissive
C12_Witness ==
  /\ task[1].status = "fulfilled"
  /\ BlockIsFor(task[1].block, Chars(<<"(","G","P","L","-","2",".","0"," ","O","R"," ">>)
                               \o Chars(<<"a","p","a","c","h","e">>) \o Chars(<<"-","2",".","0",")">>))
  /\ nonPermissiveCount = 0

(***************************************************************************)
(* C13: within one run no dependency causes more than one request: a unit  *)
(* served from the cache sends none, every other unit that has started     *)
(* sends exactly one, and a failed request is not sent again.              *)
(***************************************************************************)
C13_OneRequestPerUncachedDependency ==
  \A d \in Names :
     /\ task[d].requests <= 1
     /\ task[d].status \in {"none", "queued"} => task[d].requests = 0
     /\ task[d].response = "cached" => task[d].requests = 0
     /\ (task[d].status = "fetching" \/ task[d].response \in {"answered", "failed"})
          => task[d].requests = 1

\* a written report of a run in which one request failed and another dependency
\* was served from the cache
C13_Witness ==
  /\ Written
  /\ \E d \in Range(allDependencies) : task[d].response = "failed" /\ task[d].requests = 1
  /\ \E d \in Range(allDependencies) : task[d].response = "cached"

(***************************************************************************)
(* C15: the summary of a written report is exact: "Total Dependencies" is  *)
(* the number of blocks and "Non-Permissive Licenses" the number of blocks *)
(* with the warning glyph, whether the block was classified in this run or *)
(* reused, and whatever the order in which the units completed.            *)
(***************************************************************************)
C15_SummaryIsExact ==
  Written =>
    LET blocks == BlocksOf(outputFile)
    IN  /\ SummaryOf(outputFile)[1] = Len(blocks)
        /\ SummaryOf(outputFile)[2] = Cardinality({ i \in 1..Len(blocks) : HasGlyph(blocks[i]) })
        /\ nonPermissiveCount = SummaryOf(outputFile)[2]

\* a written report with a reused block and a new block that both carry the glyph
C15_Witness ==
  /\ Written
  /\ \E d \in Range(allDependencies) :
       task[d].response = "cached" /\ HasGlyph(BlockOf(outputFile, d))
  /\ \E d \in Range(allDependencies) :
       task[d].response \in {"answered", "failed"} /\ HasGlyph(BlockOf(outputFile, d))

(***************************************************************************)
(* C16: a run writes the report at most once, and only when the unit of    *)
(* work of every dependency is fulfilled: the written report has a block   *)
(* for every dependency, and until the write the report on disk is the     *)
(* previous one.                                                           *)
(***************************************************************************)
C16_WrittenOnceAndWhole ==
  /\ writes <= 1
  /\ writes = 0 => outputFile = previousReport
  /\ writes = 1 =>
       /\ pc = "done"
       /\ \A d \in Range(allDependencies) : task[d].status = "fulfilled"
       /\ Len(BlocksOf(outputFile)) = Len(allDependencies)
       /\ \A d \in Range(allDependencies) : HasBlock(outputFile, d)

\* the first unit of a run is fulfilled, another is not, and the report of the
\* previous run is still on disk
C16_Witness ==
  /\ pc = "pipeline"
  /\ previousReport.exists /\ HasBlock(previousReport, 1)
  /\ \E d \in Range(allDependencies) : task[d].status = "fulfilled"
  /\ \E d \in Range(allDependencies) : task[d].status = "fetching"

(***************************************************************************)
(* C18: processedCount is 0 before the pipeline, is the number of units    *)
(* that have returned, grows by one with each of them and never decreases  *)
(* within a run; nonPermissiveCount <= processedCount <= total and         *)
(* cachedCount <= processedCount; it is the total when the report is       *)
(* written; and updateProgress returns normally for every value it gets.   *)
(***************************************************************************)
Completed == { d \in Names : task[d].status \in {"returned", "fulfilled"} }

ProgressCounters ==
  /\ pc \in {"exited", "reading-manifest", "reading-cache"} /\ runs > 0 => processedCount = 0
  /\ processedCount = Cardinality(Completed)
  /\ cachedCount = Cardinality({ d \in Completed : task[d].response = "cached" })
  /\ nonPermissiveCount <= processedCount
  /\ cachedCount <= processedCount
  /\ processedCount <= Len(allDependencies)
  /\ Written => processedCount = Len(allDependencies)
  /\ ~updateProgress(processedCount, Len(allDependencies)).throws

C18_ProgressCounter ==
  [][ /\ ProgressCounters
      /\ ProgressCounters'
      /\ runs' = runs =>
           /\ processedCount' \in {processedCount, processedCount + 1}
           /\ (processedCount' = processedCount + 1) <=> (Completed' # Completed) ]_vars

\* a written report of a run that counted a reused unit, a requested unit and a
\* non-permissive license
C18_Witness ==
  /\ Written
  /\ processedCount = Len(allDependencies)
  /\ 0 < cachedCount /\ cachedCount < processedCount
  /\ 0 < nonPermissiveCount

\* the blocks of the report the run found, as the cache reader cuts them
PreviousPieces == IF previousReport.exists THEN Tail(Split(previousReport.content, MARKER)) ELSE <<>>

\* the text names an instant: it has the text of a day and an hour, or it is an ISO text
NamesAnInstant(text) ==
  \E i \in 1..Len(text) : text[i].k \in {"D. M. YYYY H", "YYYY-MM-DDTHH:mm:ss.sssZ"}

(***************************************************************************)
(* C14: a cached record whose timestamp text names no instant is read as   *)
(* the epoch, so the dependency is requested again; the other cached       *)
(* records of the same report are reused as usual.                         *)
(***************************************************************************)
C14_UnparseableTimestampIsStale ==
  \A d \in Range(allDependencies) :
     ( /\ InPipeline
       /\ task[d].status # "queued"
       /\ HasCached(cachedDependencies, PkgName(d))
       /\ ~NamesAnInstant(Cached(cachedDependencies, PkgName(d)).lastUpdated) )
     => /\ parseDate(Cached(cachedDependencies, PkgName(d)).lastUpdated) = 0
        /\ task[d].response # "cached"
        /\ task[d].requests = 1
        /\ \A e \in Range(allDependencies) \ {d} :
             ( /\ task[e].status # "queued"
               /\ HasCached(cachedDependencies, PkgName(e))
               /\ NamesAnInstant(Cached(cachedDependencies, PkgName(e)).lastUpdated)
               /\ parseDate(Cached(cachedDependencies, PkgName(e)).lastUpdated) > started - WeekTicks )
             => task[e].response = "cached" /\ task[e].requests = 0

\* a written report of a run that found the report with the overwritten cache line:
\* the first dependency was requested, the second reused
C14_Witness ==
  /\ Written
  /\ previousReport = EditedStamp
  /\ task[1].response = "answered"
  /\ task[2].response = "cached"

(***************************************************************************)
(* C19: a reuse does not make a record younger.  In a written report the   *)
(* timestamp of a reused block denotes no later an instant than the        *)
(* timestamp of the block it was reused from, and the timestamp of a       *)
(* requested block denotes the time of the answer; and a run that starts   *)
(* seven days or more after the instant the previous block denotes sends   *)
(* a request when it starts the unit, which stays a requested one.  So the *)
(* timestamp of a block is never later than the last request, and a run    *)
(* that starts seven days or more after that request requests again,       *)
(* however many runs reused the block.                                     *)
(***************************************************************************)
\* the timestamps of the blocks of a written report
StampsAtWrite ==
  \A d \in Range(allDependencies) :
     /\ (task[d].response = "cached" /\ NamesAnInstant(StampTextOf(BlockOf(previousReport, d))))
         => /\ NamesAnInstant(StampTextOf(BlockOf(outputFile, d)))
            /\ InstantOf(StampTextOf(BlockOf(outputFile, d)))
                 <= InstantOf(StampTextOf(BlockOf(previousReport, d)))
     /\ task[d].response \in {"answered", "failed"}
         => /\ InstantOf(StampTextOf(BlockOf(outputFile, d))) = task[d].stamp
            /\ started <= task[d].stamp /\ task[d].stamp <= clock

C19_ReuseDoesNotRefresh ==
  /\ [](Written => StampsAtWrite)
  /\ [][
      /\ \A d \in Range(allDependencies) :
           ( /\ task[d].status = "queued" /\ task'[d].status # "queued"
             /\ HasBlock(previousReport, d)
             /\ NamesAnInstant(StampTextOf(BlockOf(previousReport, d)))
             /\ started >= InstantOf(StampTextOf(BlockOf(previousReport, d))) + WeekTicks )
           => task'[d].status = "fetching" /\ task'[d].requests = 1
      /\ \A d \in Range(allDependencies) :
           (runs' = runs /\ task[d].status \notin {"none", "queued"})
           => /\ (task'[d].response = "cached") = (task[d].response = "cached")
              /\ task'[d].requests = task[d].requests ]_vars

\* the second run after the report was found requests a dependency again, seven days
\* after the instant of its block, which the first run had reused
C19_Witness ==
  /\ Written
  /\ runs > 1
  /\ \E d \in Range(allDependencies) :
       /\ task[d].response = "answered"
       /\ HasBlock(previousReport, d)
       /\ \A i \in 1..Len(StampTextOf(BlockOf(previousReport, d))) :
            StampTextOf(BlockOf(previousReport, d))[i].k # "mm"
       /\ started = FoundTime + WeekTicks

(***************************************************************************)
(* C20: the previous report is parsed all or nothing.  When the            *)
(* extraction of one of its blocks fails, the step that reads the cache    *)
(* leaves the empty mapping, the mapping stays as read for the rest of the *)
(* run, and with the empty mapping every dependency is requested, those    *)
(* with a well-formed block younger than seven days too.                   *)
(***************************************************************************)
C20_OneBadBlockEmptiesTheCache ==
  [][ /\ ( /\ pc = "reading-cache" /\ pc' = "pipeline"
           /\ \E i \in 1..Len(PreviousPieces) : BlockThrows(PreviousPieces[i]) )
         => cachedDependencies' = <<>>
      /\ (runs' = runs /\ pc \in {"pipeline", "done", "failed"})
         => cachedDependencies' = cachedDependencies
      /\ (InPipeline /\ cachedDependencies = <<>>)'
         => \A d \in Range(allDependencies') :
              task'[d].status # "queued" => task'[d].response # "cached" /\ task'[d].requests = 1 ]_vars

\* a written report of a run that found the report with the damaged second block:
\* the first dependency, whose block is well formed and an hour old, was requested
C20_Witness ==
  /\ Written
  /\ previousReport = BrokenBlock
  /\ ~BlockThrows(PreviousPieces[1])
  /\ HasBlock(previousReport, 1)
  /\ started - InstantOf(StampTextOf(BlockOf(previousReport, 1))) < WeekTicks
  /\ task[1].response = "answered"

(***************************************************************************)
(* C17: a request that is never answered holds its own slot only.  While   *)
(* fewer than Concurrency requests hang, the unit of work of every other   *)
(* dependency is settled at some time, whether it is served from the cache *)
(* or its request is answered.  The report is written exactly when every   *)
(* unit is fulfilled: a run with a hung request never writes it, and a     *)
(* run without one ends, with the report or in the error path.             *)
(***************************************************************************)
\* the requests that are outstanding and will never be answered
Hanging == Fetching \cap hung

\* the dependencies of the run whose request, if one is sent, is never answered
HungDependencies == hung \cap Range(allDependencies)

C17_HungRequestHoldsOnlyItsSlot ==
  /\ (pc = "pipeline" /\ Cardinality(HungDependencies) < Concurrency)
       ~> (\A d \in Range(allDependencies) \ hung : task[d].status \in {"fulfilled", "rejected"})
  /\ [](Hanging # {} => pc # "done" /\ writes = 0 /\ outputFile = previousReport)
  /\ [][Hanging # {} => Hanging' # {}]_vars
  /\ [](Written => \A d \in Range(allDependencies) : task[d].status = "fulfilled")
  /\ (pc = "pipeline") ~> (Written \/ pc = "failed" \/ Hanging # {})

\* one request less than the queue has slots hangs, and the unit of every other
\* dependency has gone through the slot that is left; nothing is written
C17_Witness ==
  /\ pc = "pipeline"
  /\ Cardinality(Hanging) = Concurrency - 1
  /\ Range(allDependencies) \ hung # {}
  /\ \A d \in Range(allDependencies) \ hung : task[d].status = "fulfilled"
  /\ writes = 0

====
